---- MODULE Spec2Model ----
(***************************************************************************)
(* Filter evaluation engine of the BounceBack proxy                        *)
(* (internal/proxy/base/proxy.go): Proxy.RunFilters,                       *)
(* Proxy.isRejectedByThreshold and Proxy.prepareFilters, run by several    *)
(* concurrent evaluations against one shared verdict store.                *)
(***************************************************************************)
EXTENDS Naturals, Sequences, FiniteSets

\* ------------------------------------------------------------------ bounds
\* Longest configured filter chain (len(p.Config.Filters)).
MaxChain == 2
\* Largest configured NoRejectThreshold / RejectThreshold.
MaxThreshold == 1
\* Largest accepts / rejects count the persistent store holds at start-up.
MaxCount == 1

\* Concurrent RunFilters calls (one per inbound entity).
Evals == {"e1", "e2"}
\* Network identities (e.GetIP().String()).
IPs == {"10.0.0.1", "10.0.0.2"}
\* Names of the filter registry, in the order chains are configured from.
FilterNames == <<"geo", "ua", "ptr">>

\* The chain of n filters: names taken round-robin from the registry.
Chain(n) == [k \in 1..n |-> FilterNames[((k - 1) % Len(FilterNames)) + 1]]

\* defaultTimeout = time.Second * 10, in seconds.
defaultTimeout == 10

\* database.Verdict{}: the zero-valued record.
ZeroVerdict == [Accepts |-> 0, Rejects |-> 0]

VARIABLES
    Config,      \* p.Config: Filters, FilterSettings.{NoRejectThreshold, RejectThreshold}
    db,          \* verdict store: identity -> Verdict
    db0,         \* the store's content when the proxy was constructed (history)
    pc,          \* position of each RunFilters call
    ip,          \* RunFilters: ip
    v,           \* isRejectedByThreshold: v
    lookupErr,   \* isRejectedByThreshold: err of GetVerdict was non-nil
    byThreshold, \* value returned by isRejectedByThreshold
    i,           \* index of the range loops of prepareFilters / RunFilters
    mg,          \* mg []sync.Mutex: holder of each per-index lock
    worker,      \* position of the goroutine prepareFilters spawned per index
    applied,     \* (filtered, err) returned by each Apply call, in call order
    incAccepts,  \* number of p.db.IncAccepts(ip) calls of the evaluation
    incRejects,  \* number of p.db.IncRejects(ip) calls of the evaluation
    incErr,      \* the evaluation's IncAccepts / IncRejects call returned an error
    result,      \* value returned by RunFilters
    cfg,         \* NewBaseProxy: the cfg it is called with
    newErr,      \* NewBaseProxy: the error it returned ("uncalled" before the call)
    prepErr,     \* goroutine of each index: Prepare returned an error (history)
    startedAfter, \* the evaluations that had returned when this one was called (history)
    Request,     \* HTTPRequest.Request: its Body stream
    sent,        \* the body bytes the client sent (history)
    got          \* what each GetRaw / GetBody call returned, in call order (history)

\* What the steps of RunFilters never write.
extraVars == <<cfg, newErr, prepErr, startedAfter, Request, sent, got>>

vars == <<Config, db, db0, pc, ip, v, lookupErr, byThreshold, i, mg, worker,
          applied, incAccepts, incRejects, incErr, result,
          cfg, newErr, prepErr, startedAfter, Request, sent, got>>

\* BodyReader over the bytes b, unread: Read takes the bytes from pos on,
\* Close seeks back to the start.
BodyReader(b) == [kind |-> "BodyReader", data |-> b, pos |-> 0]

N == Len(Config.Filters)

Init ==
    /\ Config \in [Filters : {Chain(n) : n \in 0..MaxChain},
                   NoRejectThreshold : 0..MaxThreshold,
                   RejectThreshold : 0..MaxThreshold,
                   Action : {"proxy"},
                   Timeout : {defaultTimeout},
                   TLS : {"none"}]
    /\ \E r \in [Accepts : 0..MaxCount, Rejects : 0..MaxCount] :
           db = [addr \in IPs |-> r]
    /\ db0 = db
    /\ pc = [e \in Evals |-> "idle"]
    /\ ip = [e \in Evals |-> "none"]
    /\ v = [e \in Evals |-> ZeroVerdict]
    /\ lookupErr = [e \in Evals |-> FALSE]
    /\ byThreshold = [e \in Evals |-> FALSE]
    /\ i = [e \in Evals |-> 0]
    /\ mg = [e \in Evals |-> <<>>]
    /\ worker = [e \in Evals |-> [k \in 1..N |-> "unspawned"]]
    /\ applied = [e \in Evals |-> <<>>]
    /\ incAccepts = [e \in Evals |-> 0]
    /\ incRejects = [e \in Evals |-> 0]
    /\ incErr = [e \in Evals |-> FALSE]
    /\ result = [e \in Evals |-> "none"]
    /\ cfg = Config
    /\ newErr = "nil"
    /\ prepErr = [e \in Evals |-> [k \in 1..N |-> FALSE]]
    /\ startedAfter = [e \in Evals |-> {}]
    /\ Request = [Body |-> BodyReader(<<>>)]
    /\ sent = <<>>
    /\ got = <<>>

\* ------------------------------------------------------- threshold policy
\* v, err := p.db.GetVerdict(ip); if err != nil { v = &database.Verdict{} }
LookupVerdictKeepStored(stored, err) == stored

LookupVerdict(stored, err) == IF err THEN ZeroVerdict ELSE stored

\* The switch of isRejectedByThreshold with the two cases in the other order.
SwitchRejectFirst(ver, noRejectThreshold, rejectThreshold) ==
    IF rejectThreshold > 0 /\ ver.Rejects >= rejectThreshold THEN TRUE
    ELSE IF noRejectThreshold > 0 /\ ver.Accepts >= noRejectThreshold THEN FALSE
    ELSE FALSE

\* The switch of isRejectedByThreshold without the "> 0" tests.
SwitchNoZeroTest(ver, noRejectThreshold, rejectThreshold) ==
    IF ver.Accepts >= noRejectThreshold THEN FALSE
    ELSE IF ver.Rejects >= rejectThreshold THEN TRUE
    ELSE FALSE

\* The switch whose reject case needs more than rejectThreshold rejects.
SwitchRejectAbove(ver, noRejectThreshold, rejectThreshold) ==
    IF noRejectThreshold > 0 /\ ver.Accepts >= noRejectThreshold THEN FALSE
    ELSE IF rejectThreshold > 0 /\ ver.Rejects > rejectThreshold THEN TRUE
    ELSE FALSE

\* The switch of isRejectedByThreshold: the first case that matches decides;
\* the no-reject case falls out of the switch to "return false".
ThresholdSwitch(ver, noRejectThreshold, rejectThreshold) ==
    IF noRejectThreshold > 0 /\ ver.Accepts >= noRejectThreshold THEN FALSE
    ELSE IF rejectThreshold > 0 /\ ver.Rejects >= rejectThreshold THEN TRUE
    ELSE FALSE

\* ------------------------------------------------------------ verdict store
\* p.db.GetVerdict(ip): the record stored for the identity.
GetVerdict(addr) == db[addr]

\* p.db.IncAccepts(ip): one atomic increment, or an error and no change.
StoreIncAccepts(addr, err) ==
    IF err THEN db ELSE [db EXCEPT ![addr].Accepts = @ + 1]

\* p.db.IncRejects(ip): one atomic increment, or an error and no change.
StoreIncRejects(addr, err) ==
    IF err THEN db ELSE [db EXCEPT ![addr].Rejects = @ + 1]

\* ------------------------------------------------------------- RunFilters
\* RunFilters is called for an entity whose GetIP() is addr.
Start(e, addr) ==
    /\ pc[e] = "idle"
    /\ pc' = [pc EXCEPT ![e] = "threshold"]
    /\ ip' = [ip EXCEPT ![e] = addr]
    /\ UNCHANGED <<Config, db, db0, v, lookupErr, byThreshold, i, mg, worker,
                   applied, incAccepts, incRejects, incErr, result>>

\* The threshold check that also counts a threshold rejection in the store.
ThresholdCounting(e, err) ==
    LET ver == LookupVerdict(GetVerdict(ip[e]), err)
        rej == ThresholdSwitch(ver, Config.NoRejectThreshold, Config.RejectThreshold)
    IN  /\ pc[e] = "threshold"
        /\ v' = [v EXCEPT ![e] = ver]
        /\ lookupErr' = [lookupErr EXCEPT ![e] = err]
        /\ byThreshold' = [byThreshold EXCEPT ![e] = rej]
        /\ pc' = [pc EXCEPT ![e] = IF rej THEN "done" ELSE "prepare"]
        /\ result' = [result EXCEPT ![e] = IF rej THEN FALSE ELSE @]
        /\ incRejects' = [incRejects EXCEPT ![e] = IF rej THEN @ + 1 ELSE @]
        /\ db' = IF rej THEN StoreIncRejects(ip[e], FALSE) ELSE db
        /\ UNCHANGED <<Config, db0, ip, i, mg, worker, applied, incAccepts, incErr>>

\* The threshold check that clears the rejects count when it rejects.
ThresholdForgetting(e, err) ==
    LET ver == LookupVerdict(GetVerdict(ip[e]), err)
        rej == ThresholdSwitch(ver, Config.NoRejectThreshold, Config.RejectThreshold)
    IN  /\ pc[e] = "threshold"
        /\ v' = [v EXCEPT ![e] = ver]
        /\ lookupErr' = [lookupErr EXCEPT ![e] = err]
        /\ byThreshold' = [byThreshold EXCEPT ![e] = rej]
        /\ pc' = [pc EXCEPT ![e] = IF rej THEN "done" ELSE "prepare"]
        /\ result' = [result EXCEPT ![e] = IF rej THEN FALSE ELSE @]
        /\ db' = IF rej THEN [db EXCEPT ![ip[e]].Rejects = 0] ELSE db
        /\ UNCHANGED <<Config, db0, ip, i, mg, worker, applied,
                       incAccepts, incRejects, incErr>>

\* if p.isRejectedByThreshold(ip, logger) { return false }
\* err: GetVerdict failed.
Threshold(e, err) ==
    LET ver == LookupVerdict(GetVerdict(ip[e]), err)
        rej == ThresholdSwitch(ver, Config.NoRejectThreshold, Config.RejectThreshold)
    IN  /\ pc[e] = "threshold"
        /\ v' = [v EXCEPT ![e] = ver]
        /\ lookupErr' = [lookupErr EXCEPT ![e] = err]
        /\ byThreshold' = [byThreshold EXCEPT ![e] = rej]
        /\ pc' = [pc EXCEPT ![e] = IF rej THEN "done" ELSE "prepare"]
        /\ result' = [result EXCEPT ![e] = IF rej THEN FALSE ELSE @]
        /\ UNCHANGED <<Config, db, db0, ip, i, mg, worker, applied,
                       incAccepts, incRejects, incErr>>

\* prepareFilters: mg := make([]sync.Mutex, len(p.Config.Filters)), and the
\* range loop is entered (an empty chain returns mg at once and the range
\* loop of RunFilters falls through to IncAccepts).
PrepareFilters(e) ==
    /\ pc[e] = "prepare"
    /\ mg' = [mg EXCEPT ![e] = [k \in 1..N |-> "free"]]
    /\ i' = [i EXCEPT ![e] = 1]
    /\ pc' = [pc EXCEPT ![e] = IF N = 0 THEN "incaccepts" ELSE "spawn"]
    /\ UNCHANGED <<Config, db, db0, ip, v, lookupErr, byThreshold, worker,
                   applied, incAccepts, incRejects, incErr, result>>

\* Spawn, with the range loop of RunFilters entered at the last index.
SpawnApplyFromLast(e) ==
    /\ pc[e] = "spawn"
    /\ worker' = [worker EXCEPT ![e][i[e]] = "spawned"]
    /\ i' = [i EXCEPT ![e] = IF @ = N THEN N ELSE @ + 1]
    /\ pc' = [pc EXCEPT ![e] = IF i[e] = N THEN "lock" ELSE "spawn"]
    /\ UNCHANGED <<Config, db, db0, ip, v, lookupErr, byThreshold, mg,
                   applied, incAccepts, incRejects, incErr, result>>

\* prepareFilters: go func(index, ff) {...}(i, f); after the last one mg is
\* returned and the range loop of RunFilters starts.
Spawn(e) ==
    /\ pc[e] = "spawn"
    /\ worker' = [worker EXCEPT ![e][i[e]] = "spawned"]
    /\ i' = [i EXCEPT ![e] = IF @ = N THEN 1 ELSE @ + 1]
    /\ pc' = [pc EXCEPT ![e] = IF i[e] = N THEN "lock" ELSE "spawn"]
    /\ UNCHANGED <<Config, db, db0, ip, v, lookupErr, byThreshold, mg,
                   applied, incAccepts, incRejects, incErr, result>>

\* The goroutine's mg[index].Lock() without waiting for the lock to be free.
WorkerLockNoWait(e, k) ==
    /\ worker[e][k] = "spawned"
    /\ mg' = [mg EXCEPT ![e][k] = "worker"]
    /\ worker' = [worker EXCEPT ![e][k] = "prepare"]
    /\ UNCHANGED <<Config, db, db0, pc, ip, v, lookupErr, byThreshold, i,
                   applied, incAccepts, incRejects, incErr, result>>

\* goroutine of index k: mg[index].Lock(); filter.Prepare(e, ...) is entered.
WorkerLock(e, k) ==
    /\ worker[e][k] = "spawned"
    /\ mg[e][k] = "free"
    /\ mg' = [mg EXCEPT ![e][k] = "worker"]
    /\ worker' = [worker EXCEPT ![e][k] = "prepare"]
    /\ UNCHANGED <<Config, db, db0, pc, ip, v, lookupErr, byThreshold, i,
                   applied, incAccepts, incRejects, incErr, result>>

\* goroutine of index k: Prepare returns (err is logged only) and the
\* deferred mg[index].Unlock() runs.
WorkerPrepare(e, k, err) ==
    /\ worker[e][k] = "prepare"
    /\ mg' = [mg EXCEPT ![e][k] = "free"]
    /\ worker' = [worker EXCEPT ![e][k] = "done"]
    /\ UNCHANGED <<Config, db, db0, pc, ip, v, lookupErr, byThreshold, i,
                   applied, incAccepts, incRejects, incErr, result>>

\* The loop skipping the filter whose Prepare has returned an error.
LockSkipFailed(e) ==
    IF pc[e] = "lock" /\ prepErr[e][i[e]]
    THEN /\ pc' = [pc EXCEPT ![e] = IF i[e] = N THEN "incaccepts" ELSE "lock"]
         /\ i' = [i EXCEPT ![e] = IF @ = N THEN @ ELSE @ + 1]
         /\ UNCHANGED <<Config, db, db0, ip, v, lookupErr, byThreshold, mg, worker,
                        applied, incAccepts, incRejects, incErr, result>>
    ELSE /\ pc[e] = "lock"
         /\ mg[e][i[e]] = "free"
         /\ mg' = [mg EXCEPT ![e][i[e]] = "loop"]
         /\ pc' = [pc EXCEPT ![e] = "apply"]
         /\ UNCHANGED <<Config, db, db0, ip, v, lookupErr, byThreshold, i, worker,
                        applied, incAccepts, incRejects, incErr, result>>

\* RunFilters loop: mg[i].Lock(); defer mg[i].Unlock(); filter.Apply is entered.
Lock(e) ==
    /\ pc[e] = "lock"
    /\ mg[e][i[e]] = "free"
    /\ mg' = [mg EXCEPT ![e][i[e]] = "loop"]
    /\ pc' = [pc EXCEPT ![e] = "apply"]
    /\ UNCHANGED <<Config, db, db0, ip, v, lookupErr, byThreshold, i, worker,
                   applied, incAccepts, incRejects, incErr, result>>

\* The loop body after Apply, when "filtered" does not end the loop.
AfterApplyNoStop(filtered, err, k) ==
    IF k = N THEN "incaccepts" ELSE "lock"

\* The loop body after Apply, testing "filtered" before "err".
AfterApplyFilteredFirst(filtered, err, k) ==
    IF filtered THEN "increjects"
    ELSE IF k = N THEN "incaccepts" ELSE "lock"

\* RunFilters loop body after filtered, err := filter.Apply(...) at index k:
\* err != nil -> continue; filtered -> IncRejects and return false; else the
\* next iteration, and IncAccepts after the last one.
AfterApply(filtered, err, k) ==
    IF err THEN (IF k = N THEN "incaccepts" ELSE "lock")
    ELSE IF filtered THEN "increjects"
    ELSE IF k = N THEN "incaccepts" ELSE "lock"

\* The loop unlocking mg[i] as soon as Apply has returned, not by defer.
ApplyUnlocking(e, filtered, err) ==
    LET next == AfterApply(filtered, err, i[e])
    IN  /\ pc[e] = "apply"
        /\ applied' = [applied EXCEPT
                         ![e] = Append(@, [filtered |-> filtered, err |-> err])]
        /\ mg' = [mg EXCEPT ![e][i[e]] = "free"]
        /\ pc' = [pc EXCEPT ![e] = next]
        /\ i' = [i EXCEPT ![e] = IF next = "lock" THEN @ + 1 ELSE @]
        /\ UNCHANGED <<Config, db, db0, ip, v, lookupErr, byThreshold,
                       worker, incAccepts, incRejects, incErr, result>>

\* RunFilters loop: filter.Apply(e, filterLogger) returns (filtered, err).
Apply(e, filtered, err) ==
    LET next == AfterApply(filtered, err, i[e])
    IN  /\ pc[e] = "apply"
        /\ applied' = [applied EXCEPT
                         ![e] = Append(@, [filtered |-> filtered, err |-> err])]
        /\ pc' = [pc EXCEPT ![e] = next]
        /\ i' = [i EXCEPT ![e] = IF next = "lock" THEN @ + 1 ELSE @]
        /\ UNCHANGED <<Config, db, db0, ip, v, lookupErr, byThreshold, mg,
                       worker, incAccepts, incRejects, incErr, result>>

\* err = p.db.IncRejects(ip) (err is logged only); return false.
\* IncRejects after which the loop goes on instead of returning false.
IncRejectsNoReturn(e, err) ==
    /\ pc[e] = "increjects"
    /\ db' = StoreIncRejects(ip[e], err)
    /\ incRejects' = [incRejects EXCEPT ![e] = @ + 1]
    /\ incErr' = [incErr EXCEPT ![e] = err]
    /\ result' = [result EXCEPT ![e] = FALSE]
    /\ pc' = [pc EXCEPT ![e] = IF i[e] = N THEN "incaccepts" ELSE "lock"]
    /\ i' = [i EXCEPT ![e] = IF @ = N THEN @ ELSE @ + 1]
    /\ UNCHANGED <<Config, db0, ip, v, lookupErr, byThreshold, mg, worker,
                   applied, incAccepts>>

IncRejects(e, err) ==
    /\ pc[e] = "increjects"
    /\ db' = StoreIncRejects(ip[e], err)
    /\ incRejects' = [incRejects EXCEPT ![e] = @ + 1]
    /\ incErr' = [incErr EXCEPT ![e] = err]
    /\ result' = [result EXCEPT ![e] = FALSE]
    /\ pc' = [pc EXCEPT ![e] = "return"]
    /\ UNCHANGED <<Config, db0, ip, v, lookupErr, byThreshold, i, mg, worker,
                   applied, incAccepts>>

\* IncAccepts written by the engine as a read-modify-write of the record it
\* looked up for the threshold check.
IncAcceptsReadModifyWrite(e, err) ==
    /\ pc[e] = "incaccepts"
    /\ db' = IF err THEN db ELSE [db EXCEPT ![ip[e]].Accepts = v[e].Accepts + 1]
    /\ incAccepts' = [incAccepts EXCEPT ![e] = @ + 1]
    /\ incErr' = [incErr EXCEPT ![e] = err]
    /\ result' = [result EXCEPT ![e] = TRUE]
    /\ pc' = [pc EXCEPT ![e] = "return"]
    /\ UNCHANGED <<Config, db0, ip, v, lookupErr, byThreshold, i, mg, worker,
                   applied, incRejects>>

\* IncAccepts whose error makes RunFilters return false.
IncAcceptsErrRejects(e, err) ==
    /\ pc[e] = "incaccepts"
    /\ db' = StoreIncAccepts(ip[e], err)
    /\ incAccepts' = [incAccepts EXCEPT ![e] = @ + 1]
    /\ incErr' = [incErr EXCEPT ![e] = err]
    /\ result' = [result EXCEPT ![e] = ~err]
    /\ pc' = [pc EXCEPT ![e] = "return"]
    /\ UNCHANGED <<Config, db0, ip, v, lookupErr, byThreshold, i, mg, worker,
                   applied, incRejects>>

\* err := p.db.IncAccepts(ip) (err is logged only); return true.
IncAccepts(e, err) ==
    /\ pc[e] = "incaccepts"
    /\ db' = StoreIncAccepts(ip[e], err)
    /\ incAccepts' = [incAccepts EXCEPT ![e] = @ + 1]
    /\ incErr' = [incErr EXCEPT ![e] = err]
    /\ result' = [result EXCEPT ![e] = TRUE]
    /\ pc' = [pc EXCEPT ![e] = "return"]
    /\ UNCHANGED <<Config, db0, ip, v, lookupErr, byThreshold, i, mg, worker,
                   applied, incRejects>>

\* RunFilters returning without running the deferred unlocks.
ReturnKeepLocks(e) ==
    /\ pc[e] = "return"
    /\ pc' = [pc EXCEPT ![e] = "done"]
    /\ UNCHANGED <<Config, db, db0, ip, v, lookupErr, byThreshold, i, mg, worker,
                   applied, incAccepts, incRejects, incErr, result>>

\* RunFilters returns from the loop or after it: the deferred mg[i].Unlock()
\* of every iteration run.
Return(e) ==
    /\ pc[e] = "return"
    /\ mg' = [mg EXCEPT ![e] = [k \in 1..N |-> IF @[k] = "loop" THEN "free" ELSE @[k]]]
    /\ pc' = [pc EXCEPT ![e] = "done"]
    /\ UNCHANGED <<Config, db, db0, ip, v, lookupErr, byThreshold, i, worker,
                   applied, incAccepts, incRejects, incErr, result>>

\* A RunFilters call arrives for one of the evaluations E.
StartOf(E) == \E e \in E, addr \in IPs : Start(e, addr)

\* A Prepare call of one of the evaluations E returns.
PrepareOf(E, Errs) ==
    \E e \in E, k \in 1..N, err \in Errs : WorkerPrepare(e, k, err)

\* The other steps of the evaluations E and of their goroutines.
StepsOf(E, Errs) ==
    \/ \E e \in E, err \in Errs : Threshold(e, err)
    \/ \E e \in E : PrepareFilters(e)
    \/ \E e \in E : Spawn(e)
    \/ \E e \in E, k \in 1..N : WorkerLock(e, k)
    \/ \E e \in E : Lock(e)
    \/ \E e \in E, filtered \in BOOLEAN, err \in Errs : Apply(e, filtered, err)
    \/ \E e \in E, err \in Errs : IncRejects(e, err)
    \/ \E e \in E, err \in Errs : IncAccepts(e, err)
    \/ \E e \in E : Return(e)

\* The steps of the evaluations E, the store and the filters failing as Errs allows.
NextOf(E, Errs) ==
    /\ StartOf(E) \/ PrepareOf(E, Errs) \/ StepsOf(E, Errs)
    /\ UNCHANGED extraVars

\* One evaluation; every call into the store and the filters may fail.
Next == NextOf({"e1"}, BOOLEAN)

Spec == Init /\ [][Next]_vars

\* Concurrent evaluations over a store and filters that do not fail.
NextConc == NextOf(Evals, {FALSE})

\* The concurrent evaluations run chains one filter shorter than MaxChain.
InitConc == Init /\ N < MaxChain

SpecConc == InitConc /\ [][NextConc]_vars

\* ------------------------------------------------------------- vocabulary
\* isRejectedByThreshold has returned in evaluation e.
Checked(e) == pc[e] \notin {"idle", "threshold"}

\* RunFilters has returned in evaluation e.
Done(e) == pc[e] = "done"

\* RunFilters has fixed its return value (the deferred unlocks may be pending).
Returning(e) == pc[e] \in {"return", "done"}

\* The record the evaluation looked up satisfies the no-reject rule.
NoRejectRule(e) ==
    Config.NoRejectThreshold > 0 /\ v[e].Accepts >= Config.NoRejectThreshold

\* The record the evaluation looked up satisfies the reject rule.
RejectRule(e) ==
    Config.RejectThreshold > 0 /\ v[e].Rejects >= Config.RejectThreshold

\* No prepare worker was spawned and no Apply was called in evaluation e.
NoFilterInvoked(e) ==
    /\ applied[e] = <<>>
    /\ mg[e] = <<>>
    /\ \A k \in 1..N : worker[e][k] = "unspawned"

\* The k-th Apply call of evaluation e signalled filtered, without error.
FilteredAt(e, k) == applied[e][k].filtered /\ ~applied[e][k].err

\* Some Apply call of evaluation e signalled filtered, without error.
Filtered(e) == \E k \in 1..Len(applied[e]) : FilteredAt(e, k)

\* ------------------------------------------------------------------ claims
\* C1 (as stated): whenever the looked-up accepts count is >= a positive
\* no_reject_threshold, RunFilters returns accepted and invokes no filter.
C1_AllowListedSkipsFilters ==
    \A e \in Evals :
        (Done(e) /\ NoRejectRule(e)) => (result[e] = TRUE /\ NoFilterInvoked(e))

\* C1 (amended): whenever the looked-up accepts count is >= a positive
\* no_reject_threshold, isRejectedByThreshold returns false whatever the
\* rejects count, and RunFilters then runs the chain as usual: every prepare
\* worker is spawned and the verdict is accepted exactly when no Apply call
\* signalled filtered without error.
C1_NoRejectOnlyDisablesRejectRule ==
    \A e \in Evals :
        (Checked(e) /\ NoRejectRule(e)) =>
            /\ byThreshold[e] = FALSE
            /\ Done(e) =>
                /\ \A k \in 1..N : worker[e][k] # "unspawned"
                /\ result[e] = ~Filtered(e)

\* C1 witness: an identity that satisfies both rules is rejected by a filter.
C1_Witness ==
    \E e \in Evals :
        /\ Done(e) /\ NoRejectRule(e) /\ RejectRule(e)
        /\ Filtered(e) /\ result[e] = FALSE

C3_ThresholdPolicy ==
    \A e \in Evals :
        Checked(e) =>
            (byThreshold[e] <=>
                /\ Config.RejectThreshold > 0
                /\ v[e].Rejects >= Config.RejectThreshold
                /\ ~(/\ Config.NoRejectThreshold > 0
                     /\ v[e].Accepts >= Config.NoRejectThreshold))

\* C3 witness: a reject threshold of zero leaves an identity with rejects
\* unrejected although the no-reject rule does not apply to it.
C3_Witness ==
    \E e \in Evals :
        /\ Checked(e) /\ ~byThreshold[e]
        /\ Config.RejectThreshold = 0 /\ v[e].Rejects > 0
        /\ ~NoRejectRule(e)

\* C4: when an Apply call signals filtered without error, it is the last
\* Apply call of the evaluation, RunFilters returns false, IncRejects is
\* called exactly once and IncAccepts is not called.
C4_FirstFilteredRejects ==
    \A e \in Evals :
        /\ \A k \in 1..Len(applied[e]) : FilteredAt(e, k) => k = Len(applied[e])
        /\ (Returning(e) /\ ~byThreshold[e] /\ Filtered(e)) =>
               /\ result[e] = FALSE
               /\ incRejects[e] = 1
               /\ incAccepts[e] = 0

\* C4 witness: the first filter of a longer chain signalled filtered, the
\* IncRejects call failed, and RunFilters returned false.
C4_Witness ==
    \E e \in Evals :
        /\ Done(e) /\ Filtered(e) /\ Len(applied[e]) < N
        /\ incErr[e] /\ result[e] = FALSE

\* C5: when no Apply call signals filtered (the empty chain included) and no
\* threshold ended the evaluation, RunFilters returns true, IncAccepts is
\* called exactly once and IncRejects is not called.
C5_NoFilteredAccepts ==
    \A e \in Evals :
        (Returning(e) /\ ~byThreshold[e] /\ ~Filtered(e)) =>
            /\ result[e] = TRUE
            /\ incAccepts[e] = 1
            /\ incRejects[e] = 0

\* C5 witness: every filter of a chain passed, the IncAccepts call failed,
\* and RunFilters returned true.
C5_Witness ==
    \E e \in Evals :
        /\ Done(e) /\ ~byThreshold[e] /\ ~Filtered(e)
        /\ N > 0 /\ Len(applied[e]) = N
        /\ incErr[e] /\ result[e] = TRUE

\* C6: an Apply call that returns an error never leads to IncRejects,
\* whatever boolean came with the error: the next filter is applied, and after
\* the last filter of the chain IncAccepts is called once and RunFilters
\* returns true.
C6_ApplyErrorIsSkipped ==
    \A e \in Evals :
        /\ pc[e] = "increjects" => ~applied[e][Len(applied[e])].err
        /\ Returning(e) =>
               \A k \in 1..Len(applied[e]) :
                   applied[e][k].err =>
                       /\ k < N => Len(applied[e]) > k
                       /\ k = N => /\ result[e] = TRUE
                                   /\ incAccepts[e] = 1
                                   /\ incRejects[e] = 0

\* C6 witness: the last filter's Apply returned (true, error) and the
\* evaluation was accepted.
C6_Witness ==
    \E e \in Evals :
        /\ Done(e) /\ N > 0 /\ Len(applied[e]) = N
        /\ applied[e][N].err /\ applied[e][N].filtered
        /\ result[e] = TRUE /\ incAccepts[e] = 1

\* C7 (as stated): whenever the apply loop is inside Apply of index i, the
\* Prepare call of index i has completed.
C7_PrepareBeforeApply ==
    \A e \in Evals : pc[e] = "apply" => worker[e][i[e]] = "done"

\* C8: the prepare worker of index i is never inside Prepare while the apply
\* loop is inside Apply of index i.
C8_ApplyExcludesPrepare ==
    \A e \in Evals :
        \A k \in 1..N : ~(worker[e][k] = "prepare" /\ pc[e] = "apply" /\ i[e] = k)

\* C8 witness: the loop is inside Apply of index i while the worker of index
\* i, not yet run, waits for the lock.
C8_Witness ==
    \E e \in Evals :
        pc[e] = "apply" /\ worker[e][i[e]] = "spawned" /\ mg[e][i[e]] = "loop"

\* C9: when all evaluations have returned and the M evaluations of an identity
\* all returned accepted, the identity's accepts counter is M above its value
\* at start.
C9_NoLostAccepts ==
    \A addr \in IPs :
        LET M == Cardinality({e \in Evals : ip[e] = addr})
        IN  (/\ \A e \in Evals : Done(e)
             /\ \A e \in Evals : ip[e] = addr => result[e] = TRUE) =>
                db[addr].Accepts = db0[addr].Accepts + M

\* C9 witness: two evaluations of one identity overlapped and both accepted.
C9_Witness ==
    \E addr \in IPs :
        /\ \A e \in Evals : Done(e) /\ ip[e] = addr /\ result[e] = TRUE
        /\ Cardinality(Evals) >= 2
        /\ \A e \in Evals : v[e].Accepts = db0[addr].Accepts

\* C10: when GetVerdict fails the threshold check works on the zero-valued
\* record and returns false, and RunFilters runs the chain: every prepare
\* worker is spawned and the verdict is accepted exactly when no Apply call
\* signalled filtered without error.
C10_LookupFailureIsZeroRecord ==
    \A e \in Evals :
        (Checked(e) /\ lookupErr[e]) =>
            /\ v[e] = ZeroVerdict
            /\ byThreshold[e] = FALSE
            /\ Done(e) =>
                /\ \A k \in 1..N : worker[e][k] # "unspawned"
                /\ result[e] \in BOOLEAN
                /\ result[e] = ~Filtered(e)

\* C10 witness: the stored record satisfies the reject rule, the lookup
\* failed, and the evaluation was accepted by the filters.
C10_Witness ==
    \E e \in Evals :
        /\ Done(e) /\ lookupErr[e]
        /\ Config.RejectThreshold > 0 /\ Config.NoRejectThreshold = 0
        /\ db0[ip[e]].Rejects >= Config.RejectThreshold
        /\ N > 0 /\ result[e] = TRUE

\* ----------------------------------------------------------- NewBaseProxy
\* fs: the names the filter registry holds.
filters == {FilterNames[k] : k \in 1..Len(FilterNames)}

\* fs.Get(f): the "found" result.
FilterSetGet(f) == f \in filters

\* actions: the actions the calling proxy type supports.
actions == {"proxy", "drop"}

\* verifyAction(a, actions): nil (TRUE) exactly for a supported action.
verifyAction(a, supported) == a \in supported

\* What NewBaseProxy returns in place of a proxy together with an error.
NoProxy == [Name |-> "nil"]

\* The configurations NewBaseProxy is called with: chains that may name a
\* filter the registry does not hold, a possibly unsupported action, a zero
\* or set timeout, no TLS or a key pair that loads or does not load.
Cfgs ==
    [Filters : UNION {[1..n -> filters \cup {"unknown"}] : n \in 0..MaxChain},
     NoRejectThreshold : {0},
     RejectThreshold : {0},
     Action : actions \cup {"bogus"},
     Timeout : {0, defaultTimeout},
     TLS : {"none", "loadable", "unloadable"}]

\* Before the call of NewBaseProxy: no proxy, an empty store, no evaluation.
InitNew ==
    /\ cfg \in Cfgs
    /\ Config = NoProxy
    /\ newErr = "uncalled"
    /\ db = [addr \in IPs |-> ZeroVerdict]
    /\ db0 = db
    /\ pc = [e \in Evals |-> "idle"]
    /\ ip = [e \in Evals |-> "none"]
    /\ v = [e \in Evals |-> ZeroVerdict]
    /\ lookupErr = [e \in Evals |-> FALSE]
    /\ byThreshold = [e \in Evals |-> FALSE]
    /\ i = [e \in Evals |-> 0]
    /\ mg = [e \in Evals |-> <<>>]
    /\ worker = [e \in Evals |-> [k \in 1..Len(cfg.Filters) |-> "unspawned"]]
    /\ applied = [e \in Evals |-> <<>>]
    /\ incAccepts = [e \in Evals |-> 0]
    /\ incRejects = [e \in Evals |-> 0]
    /\ incErr = [e \in Evals |-> FALSE]
    /\ result = [e \in Evals |-> "none"]
    /\ prepErr = [e \in Evals |-> [k \in 1..Len(cfg.Filters) |-> FALSE]]
    /\ startedAfter = [e \in Evals |-> {}]
    /\ Request = [Body |-> BodyReader(<<>>)]
    /\ sent = <<>>
    /\ got = <<>>

\* NewBaseProxy without the loop over cfg.Filters.
NewBaseProxyNoFilterCheck ==
    LET err == IF ~verifyAction(cfg.Action, actions) THEN "action"
               ELSE IF cfg.TLS = "unloadable" THEN "tls"
               ELSE "nil"
    IN  /\ newErr = "uncalled"
        /\ newErr' = err
        /\ Config' = IF err = "nil"
                     THEN [cfg EXCEPT !.Timeout = IF @ = 0 THEN defaultTimeout ELSE @]
                     ELSE NoProxy
        /\ UNCHANGED <<db, db0, pc, ip, v, lookupErr, byThreshold, i, mg, worker,
                       applied, incAccepts, incRejects, incErr, result,
                       cfg, prepErr, startedAfter, Request, sent, got>>

\* NewBaseProxy(cfg, fs, db, actions): verifyAction, then fs.Get of every
\* name of cfg.Filters, then the default timeout, then the TLS key pair; the
\* first failure returns (nil, err), otherwise the proxy holds cfg.
NewBaseProxy ==
    LET err == IF ~verifyAction(cfg.Action, actions) THEN "action"
               ELSE IF \E k \in 1..Len(cfg.Filters) : ~FilterSetGet(cfg.Filters[k])
                    THEN "filter"
               ELSE IF cfg.TLS = "unloadable" THEN "tls"
               ELSE "nil"
    IN  /\ newErr = "uncalled"
        /\ newErr' = err
        /\ Config' = IF err = "nil"
                     THEN [cfg EXCEPT !.Timeout = IF @ = 0 THEN defaultTimeout ELSE @]
                     ELSE NoProxy
        /\ UNCHANGED <<db, db0, pc, ip, v, lookupErr, byThreshold, i, mg, worker,
                       applied, incAccepts, incRejects, incErr, result,
                       cfg, prepErr, startedAfter, Request, sent, got>>

\* The proxy is constructed, and if that succeeded it evaluates one entity.
NextNew ==
    \/ NewBaseProxy
    \/ newErr = "nil" /\ NextOf({"e1"}, {FALSE})

SpecNew == InitNew /\ [][NextNew]_vars

\* C11: NewBaseProxy returns an error and no proxy when the action is
\* unsupported or a name of the chain is not in the registry; every name of
\* the chain of a constructed proxy resolves, also at the lookups of the
\* prepare goroutines and of the apply loop.
C11_ConstructionChecksConfig ==
    /\ newErr # "uncalled" =>
        /\ (\/ cfg.Action \notin actions
            \/ \E k \in 1..Len(cfg.Filters) : cfg.Filters[k] \notin filters) =>
               newErr \notin {"nil", "uncalled"}
        /\ newErr # "nil" => Config = NoProxy
    /\ Config # NoProxy =>
        /\ newErr = "nil"
        /\ \A k \in 1..N : FilterSetGet(Config.Filters[k])
        /\ \A e \in Evals :
            /\ pc[e] = "apply" => FilterSetGet(Config.Filters[i[e]])
            /\ \A k \in 1..N :
                   worker[e][k] = "prepare" => FilterSetGet(Config.Filters[k])

\* C11 witness: a supported action and a chain with an unregistered name; the
\* call returned the filter error and no proxy.
C11_Witness ==
    /\ newErr = "filter" /\ Config = NoProxy
    /\ cfg.Action \in actions /\ cfg.TLS # "unloadable"
    /\ \E k \in 1..Len(cfg.Filters) : cfg.Filters[k] \in filters

\* ------------------------------------------------------------ HTTPRequest
\* Longest request body.
MaxBody == 3
\* Number of GetRaw / GetBody calls on one entity.
MaxCalls == 3

\* The byte values of a body.
Bytes == {"a", "b"}

\* The request line and headers as httputil.DumpRequest writes them.
Headers == <<"GET / HTTP/1.1", "Host: target", "">>

\* What the steps of HTTPRequest never write.
engineVars == <<Config, db, db0, pc, ip, v, lookupErr, byThreshold, i, mg,
                worker, applied, incAccepts, incRejects, incErr, result,
                cfg, newErr, prepErr, startedAfter>>

\* io.ReadAll(b): the bytes from the read position to the end.
ReadAll(b) == SubSeq(b.data, b.pos + 1, Len(b.data))

\* The stream b after it was read to the end.
Drained(b) == [b EXCEPT !.pos = Len(b.data)]

\* b.Close(): a BodyReader goes back to its start; the io.NopCloser that
\* DumpRequest leaves in the request does nothing.
Close(b) == IF b.kind = "BodyReader" THEN [b EXCEPT !.pos = 0] ELSE b

\* WrapHTTPBody(b): reads b to the end, closes it and returns a BodyReader
\* over the bytes read.
WrapHTTPBody(b) == BodyReader(ReadAll(b))

\* httputil.DumpRequest(req, true) with req.Body = b: the head, then the bytes
\* read from b.
DumpRequest(b) == Headers \o ReadAll(b)

\* The body part of a dump.
RawBody(data) == SubSeq(data, Len(Headers) + 1, Len(data))

\* An entity whose body the transport wrapped with BodyReader; no call yet.
InitHTTP ==
    /\ sent \in UNION {[1..n -> Bytes] : n \in 0..MaxBody}
    /\ Request = [Body |-> BodyReader(sent)]
    /\ got = <<>>
    /\ Config = NoProxy
    /\ cfg = NoProxy
    /\ newErr = "uncalled"
    /\ db = [addr \in IPs |-> ZeroVerdict]
    /\ db0 = db
    /\ pc = [e \in Evals |-> "idle"]
    /\ ip = [e \in Evals |-> "none"]
    /\ v = [e \in Evals |-> ZeroVerdict]
    /\ lookupErr = [e \in Evals |-> FALSE]
    /\ byThreshold = [e \in Evals |-> FALSE]
    /\ i = [e \in Evals |-> 0]
    /\ mg = [e \in Evals |-> <<>>]
    /\ worker = [e \in Evals |-> <<>>]
    /\ applied = [e \in Evals |-> <<>>]
    /\ incAccepts = [e \in Evals |-> 0]
    /\ incRejects = [e \in Evals |-> 0]
    /\ incErr = [e \in Evals |-> FALSE]
    /\ result = [e \in Evals |-> "none"]
    /\ prepErr = [e \in Evals |-> <<>>]
    /\ startedAfter = [e \in Evals |-> {}]

\* HTTPRequest.GetRaw: body := WrapHTTPBody(r.Request.Body); data, err :=
\* httputil.DumpRequest(r.Request, true), which reads the closed old body and
\* puts a NopCloser in its place; r.Request.Body = body; the dump or err.
GetRaw(err) ==
    LET old == Request.Body
        body == WrapHTTPBody(old)
        closed == Close(Drained(old))
        data == DumpRequest(closed)
    IN  /\ Len(got) < MaxCalls
        /\ Request' = [Request EXCEPT !.Body = body]
        /\ got' = Append(got, [call |-> "GetRaw", err |-> err,
                               data |-> IF err THEN <<>> ELSE data])
        /\ UNCHANGED sent
        /\ UNCHANGED engineVars

\* GetBody without the deferred resetBody.
GetBodyNoReset(err) ==
    LET old == Request.Body
    IN  /\ Len(got) < MaxCalls
        /\ Request' = [Request EXCEPT !.Body = Drained(old)]
        /\ got' = Append(got, [call |-> "GetBody", err |-> err,
                               data |-> IF err THEN <<>> ELSE ReadAll(old)])
        /\ UNCHANGED sent
        /\ UNCHANGED engineVars

\* HTTPRequest.GetBody: defer r.resetBody(); buf, err := io.ReadAll(
\* r.Request.Body); buf or err; resetBody closes the body.
GetBody(err) ==
    LET old == Request.Body
    IN  /\ Len(got) < MaxCalls
        /\ Request' = [Request EXCEPT !.Body = Close(Drained(old))]
        /\ got' = Append(got, [call |-> "GetBody", err |-> err,
                               data |-> IF err THEN <<>> ELSE ReadAll(old)])
        /\ UNCHANGED sent
        /\ UNCHANGED engineVars

NextHTTP ==
    \/ \E err \in BOOLEAN : GetRaw(err)
    \/ \E err \in BOOLEAN : GetBody(err)

SpecHTTP == InitHTTP /\ [][NextHTTP]_vars

\* The body bytes a call returned.
BodyOf(r) == IF r.call = "GetRaw" THEN RawBody(r.data) ELSE r.data

Held(e) == {k \in 1..Len(mg[e]) : mg[e][k] = "loop"}

\* C13: the apply loop holds the locks of all indices it has reached and of
\* no other: 1..i-1 while it waits for lock i, 1..i while Apply of i runs, all
\* it took until RunFilters returns, and none before the loop and after the
\* return.
C13_LocksHeldUntilReturn ==
    \A e \in Evals :
        /\ pc[e] = "lock" => Held(e) = 1..(i[e] - 1)
        /\ pc[e] = "apply" => Held(e) = 1..i[e]
        /\ pc[e] \in {"increjects", "incaccepts", "return"} =>
               Held(e) = 1..Len(applied[e])
        /\ pc[e] \in {"idle", "threshold", "prepare", "spawn", "done"} =>
               Held(e) = {}

\* C13 witness: Apply of the second filter runs while the loop still holds the
\* first lock and the first prepare goroutine waits for it.
C13_Witness ==
    \E e \in Evals :
        /\ pc[e] = "apply" /\ i[e] = 2
        /\ mg[e][1] = "loop" /\ worker[e][1] = "spawned"

\* C14: the Apply call of index i is entered only when exactly the i-1
\* earlier indices have been applied, each once, and each returned an error
\* or filtered = false; nothing is applied after a filtered result.
C14_ApplyInChainOrder ==
    \A e \in Evals :
        /\ Len(applied[e]) <= N
        /\ pc[e] \in {"lock", "apply"} =>
            /\ i[e] = Len(applied[e]) + 1
            /\ \A k \in 1..Len(applied[e]) :
                   applied[e][k].err \/ ~applied[e][k].filtered
        /\ Filtered(e) => pc[e] \in {"increjects", "return", "done"}

\* C14 witness: Apply of the second filter runs after the first returned an
\* error.
C14_Witness ==
    \E e \in Evals :
        pc[e] = "apply" /\ i[e] = 2 /\ Len(applied[e]) = 1 /\ applied[e][1].err

\* A Prepare call returns and its outcome is kept.
PrepareRecorded(E) ==
    \E e \in E, k \in 1..N, err \in BOOLEAN :
        /\ WorkerPrepare(e, k, err)
        /\ prepErr' = [prepErr EXCEPT ![e][k] = err]
        /\ UNCHANGED <<cfg, newErr, startedAfter, Request, sent, got>>

\* One evaluation whose Prepare calls may fail; the other calls do not.
NextPrep ==
    \/ StartOf({"e1"}) /\ UNCHANGED extraVars
    \/ StepsOf({"e1"}, {FALSE}) /\ UNCHANGED extraVars
    \/ PrepareRecorded({"e1"})

SpecPrep == Init /\ [][NextPrep]_vars

\* C15: whatever Prepare calls failed, the verdict and the counter RunFilters
\* increments follow from the Apply results alone, and a filter whose Prepare
\* failed is applied in its turn unless an earlier filter ended the chain.
C15_PrepareFailureChangesNothing ==
    \A e \in Evals :
        /\ (Returning(e) /\ ~byThreshold[e]) =>
            /\ result[e] = ~Filtered(e)
            /\ incAccepts[e] = (IF Filtered(e) THEN 0 ELSE 1)
            /\ incRejects[e] = (IF Filtered(e) THEN 1 ELSE 0)
            /\ Filtered(e) \/ Len(applied[e]) = N
        /\ \A k \in 1..N :
               (prepErr[e][k] /\ pc[e] \in {"lock", "apply"}) =>
                   i[e] = Len(applied[e]) + 1
        /\ \A k \in 1..N :
               (/\ prepErr[e][k] /\ Returning(e) /\ ~byThreshold[e]
                /\ \A j \in 1..Len(applied[e]) : j < k => ~FilteredAt(e, j)) =>
                   Len(applied[e]) >= k

\* C15 witness: the Prepare of the first filter failed before the loop took
\* its lock, the filter was applied and signalled filtered.
C15_Witness ==
    \E e \in Evals :
        /\ Done(e) /\ N > 1 /\ prepErr[e][1] /\ FilteredAt(e, 1)
        /\ result[e] = FALSE /\ incRejects[e] = 1

\* ------------------------------------------------- counters of the store
\* The evaluations of identity a whose increment, counted in inc, took effect.
Counted(a, inc) ==
    Cardinality({e \in Evals : ip[e] = a /\ inc[e] = 1 /\ ~incErr[e]})

\* Every counter is its initial value plus one per evaluation of that very
\* identity whose increment took effect, and an evaluation makes at most one
\* increment call, none when the threshold rule rejected.
CountersAccounted ==
    /\ \A a \in IPs :
        /\ db[a].Accepts = db0[a].Accepts + Counted(a, incAccepts)
        /\ db[a].Rejects = db0[a].Rejects + Counted(a, incRejects)
    /\ \A e \in Evals :
        /\ incAccepts[e] + incRejects[e] <= 1
        /\ byThreshold[e] => incAccepts[e] + incRejects[e] = 0
        /\ Done(e) => (incAccepts[e] + incRejects[e] = 0 <=> byThreshold[e])

\* No step lowers a counter, and a step changes at most one counter of one
\* identity, by one.
CountersGrow ==
    /\ \A a \in IPs :
        /\ db'[a].Accepts \in {db[a].Accepts, db[a].Accepts + 1}
        /\ db'[a].Rejects \in {db[a].Rejects, db[a].Rejects + 1}
    /\ \A a, b \in IPs :
        (a # b /\ db'[a] # db[a]) => db'[b] = db[b]
    /\ \A a \in IPs :
        db'[a] # db[a] =>
            \E e \in Evals :
                /\ ip[e] = a
                /\ pc[e] \in {"increjects", "incaccepts"} /\ pc'[e] = "return"

LoopStep(e) ==
    /\ \/ Threshold(e, FALSE)
       \/ PrepareFilters(e)
       \/ Spawn(e)
       \/ Lock(e)
       \/ \E filtered \in BOOLEAN : Apply(e, filtered, FALSE)
       \/ IncRejects(e, FALSE)
       \/ IncAccepts(e, FALSE)
       \/ Return(e)
    /\ UNCHANGED extraVars

\* The steps of the prepare goroutine of index k of evaluation e.
WorkerStep(e, k) ==
    /\ k <= N
    /\ WorkerLock(e, k) \/ WorkerPrepare(e, k, FALSE)
    /\ UNCHANGED extraVars

\* The scheduler lets every goroutine that can take a step take one; the
\* calls into the filters and the store return.
Fairness ==
    /\ WF_vars(LoopStep("e1"))
    /\ \A k \in 1..MaxChain : WF_vars(WorkerStep("e1", k))

\* The identities have no accepts on record and no no-reject threshold is
\* configured: the threshold check rejects or passes by the reject rule.
InitLive ==
    /\ Init
    /\ Config.NoRejectThreshold = 0
    /\ \A a \in IPs : db[a].Accepts = 0

\* One evaluation; the calls into the store and the filters return no error.
NextLive == NextOf({"e1"}, {FALSE})

SpecLive == InitLive /\ [][NextLive]_vars /\ Fairness

\* C17: every evaluation that was called returns a verdict, and every prepare
\* worker it spawned gets its lock, runs Prepare and ends with the lock
\* released.
C17_EvaluationAndWorkersTerminate ==
    /\ (pc["e1"] = "threshold") ~> (Done("e1") /\ result["e1"] \in BOOLEAN)
    /\ \A k \in 1..MaxChain :
          (k <= N /\ worker["e1"][k] = "spawned") ~>
              (k <= N /\ worker["e1"][k] = "done" /\ mg["e1"][k] # "worker")

\* C17 witness: the evaluation has returned after applying the whole chain
\* and all its prepare workers have ended.
C17_Witness ==
    /\ Done("e1") /\ N = MaxChain /\ Len(applied["e1"]) = N
    /\ \A k \in 1..N : worker["e1"][k] = "done" /\ mg["e1"][k] = "free"

\* ------------------------------------------------- workers left behind
\* C18 (as stated): when RunFilters has returned, none of its prepare workers
\* is still waiting for its lock or executing Prepare.
C18_NoWorkerAfterReturn ==
    \A e \in Evals :
        Done(e) => \A k \in 1..N : worker[e][k] \notin {"spawned", "prepare"}

\* ------------------------------------------------- the reject threshold
\* C19 (as stated): with reject threshold T > 0, no no-reject threshold and
\* a zero record at the start, the rejects count never exceeds T.
C19_RejectsNeverExceedThreshold ==
    \A a \in IPs :
        (/\ Config.RejectThreshold > 0 /\ Config.NoRejectThreshold = 0
         /\ db0[a] = ZeroVerdict) =>
            db[a].Rejects <= Config.RejectThreshold

\* C19 (amended): an evaluation increments rejects only when the record it
\* looked up had fewer than T rejects, so the count passes T only through
\* evaluations that looked the record up before T was reached, and by less
\* than the number of evaluations running at the same time.
C19_RejectsExceedOnlyByOverlap ==
    (Config.RejectThreshold > 0 /\ Config.NoRejectThreshold = 0) =>
        /\ \A e \in Evals :
               incRejects[e] = 1 => v[e].Rejects < Config.RejectThreshold
        /\ \A a \in IPs :
               db0[a] = ZeroVerdict =>
                   db[a].Rejects <= Config.RejectThreshold + Cardinality(Evals) - 1

\* C19 witness: two overlapping evaluations both looked up a count below T,
\* both were filtered, and the count stands above T.
C19_Witness ==
    \E e, f \in Evals :
        /\ e # f /\ ip[e] = ip[f] /\ Done(e) /\ Done(f)
        /\ Config.RejectThreshold > 0 /\ Config.NoRejectThreshold = 0
        /\ db0[ip[e]] = ZeroVerdict
        /\ incRejects[e] = 1 /\ incRejects[f] = 1
        /\ db[ip[e]].Rejects > Config.RejectThreshold

\* ------------------------------------------------- later evaluations
\* RunFilters is called while no other call of it is running, for the
\* identity of the calls that have returned; these are remembered.
StartRecorded(E) ==
    \E e \in E, addr \in IPs :
        /\ \A f \in E : pc[f] = "idle" \/ (Done(f) /\ ip[f] = addr)
        /\ Start(e, addr)
        /\ startedAfter' = [startedAfter EXCEPT ![e] = {f \in Evals : Done(f)}]
        /\ UNCHANGED <<cfg, newErr, prepErr, Request, sent, got>>

\* GetVerdict returns an error.
LookupFails(E) == \E e \in E : Threshold(e, TRUE)

\* Evaluations of one identity called one after the other's return (the
\* prepare goroutines of a returned one may still run) over a store whose
\* lookups may fail.
NextLater ==
    \/ StartRecorded(Evals)
    \/ PrepareOf(Evals, {FALSE}) /\ UNCHANGED extraVars
    \/ StepsOf(Evals, {FALSE}) /\ UNCHANGED extraVars
    \/ LookupFails(Evals) /\ UNCHANGED extraVars

\* The reject threshold is configured.
InitLater == InitConc /\ Config.RejectThreshold > 0

SpecLater == InitLater /\ [][NextLater]_vars

\* Evaluation f was called for the identity of evaluation e after e had
\* returned false by the reject-threshold short-circuit.
CalledAfterThresholdReject(f, e) ==
    /\ e \in startedAfter[f]
    /\ byThreshold[e]
    /\ ip[f] = ip[e]

====
